---------------------------- MODULE Spec2Model ----------------------------
(***************************************************************************)
(* A model of the dotsOCR HTTP gateway (src/api.py): the three request     *)
(* handlers parse_image, parse_pdf and parse_file, the temporary files and *)
(* directories they create and remove, the call to the external parser and *)
(* the response each request ends with.                                    *)
(*                                                                         *)
(* A request is a coroutine.  Each action below is one stretch of a        *)
(* handler's code; requests interleave between the actions.  The file      *)
(* system is shared by all requests.  The parser is an external            *)
(* collaborator: what it returns, what it writes under its save_dir and    *)
(* whether it raises are choices of the environment, and so is the failure *)
(* of an operating-system call.                                            *)
(***************************************************************************)
EXTENDS Integers, Sequences, FiniteSets, TLC

(***************************************************************************)
(* Bounds of the model.                                                    *)
(***************************************************************************)
\* The longest list of page descriptors the parser returns.
MaxPages == 2
\* The number of directory names tempfile.mkdtemp() can draw from.
NumTempNames == 3

VARIABLES
    req,    \* request id -> the request's upload, locals, position and outcome
    fs      \* the file system: the set of existing entries under the temp root

vars == <<req, fs>>

None == "None"

(***************************************************************************)
(* Uploads.  A filename is a sequence of tokens (stems, dots, extensions)  *)
(* so that pathlib's suffix rule and str.lower() are computed, not assumed.*)
(***************************************************************************)
Filenames ==
    { <<>>,
      <<"doc", ".", "pdf">>, <<"doc", ".", "PDF">>,
      <<"doc", ".", "jpg">>, <<"doc", ".", "jpeg">>, <<"doc", ".", "PNG">>,
      <<"doc", ".", "txt">>, <<"doc">>, <<".", "pdf">>,
      <<"doc", ".", "pdf", ".", "txt">> }

Contents == { <<>>, <<"b">> }

Endpoints == { "image", "pdf", "file" }

\* str.lower() on one token.
Lower(t) ==
    CASE t = "PDF" -> "pdf"
      [] t = "PNG" -> "png"
      [] OTHER -> t

\* The largest index of a "." in name, 0 when there is none (str.rfind, 1-based).
RFindDot(name) ==
    LET dots == { i \in 1..Len(name) : name[i] = "." }
    IN  IF dots = {} THEN 0 ELSE CHOOSE i \in dots : \A j \in dots : j <= i

\* Path(filename).suffix.lower(): the final component's last dot and what
\* follows it, unless that dot leads or ends the name.
Suffix(filename) ==
    LET i == RFindDot(filename)
    IN  IF 1 < i /\ i < Len(filename)
        THEN [k \in 1..(Len(filename) - i + 1) |-> Lower(filename[i + k - 1])]
        ELSE <<>>

RECURSIVE Join(_)
\* The tokens of a suffix as one string.
Join(toks) == IF toks = <<>> THEN "" ELSE Head(toks) \o Join(Tail(toks))

ImageExts == { <<".", "jpg">>, <<".", "jpeg">>, <<".", "png">> }
PdfExt == <<".", "pdf">>

(***************************************************************************)
(* Exceptions and responses.                                               *)
(***************************************************************************)
HTTPException(status_code, detail) ==
    [type |-> "HTTPException", status_code |-> status_code, detail |-> detail]

PyException(type, msg) == [type |-> type, status_code |-> 0, detail |-> msg]

\* str(e): Starlette's HTTPException prints "<status_code>: <detail>", any
\* other exception prints its message.
Str(e) ==
    IF e.type = "HTTPException"
    THEN ToString(e.status_code) \o ": " \o e.detail
    ELSE e.detail

\* A handler's outermost "except Exception as e: raise HTTPException(500, str(e))".
\* HTTPException is an Exception, so it is caught here as well.
ExceptAll(e) == HTTPException(500, Str(e))

\* What leaves the endpoint when exception e is raised inside handler code
\* of request q: the handler's own catch-all, then parse_file's when the
\* handler was called from parse_file.
Escaping(q, e) == IF q.via THEN ExceptAll(ExceptAll(e)) ELSE ExceptAll(e)

ErrorResponse(e) == [status |-> e.status_code, detail |-> e.detail]
OkResponse(body) == [status |-> 200, body |-> body]

NoResponse == [status |-> 0]
NoException == [type |-> None, status_code |-> 0, detail |-> ""]

(***************************************************************************)
(* The file system.  A directory made by mkdtemp has the path <<name>>, an *)
(* entry in it the path <<name, entry>>.                                   *)
(***************************************************************************)
TempNames == { "tmp" \o ToString(i) : i \in 1..NumTempNames }

\* The values uuid.uuid4().hex takes.
UuidHex == { "a1", "b2" }

Entry(path, kind, text, owner) ==
    [path |-> path, kind |-> kind, text |-> text, owner |-> owner]

Exists(path) == \E e \in fs : e.path = path
EntryAt(path) == CHOOSE e \in fs : e.path = path
\* os.listdir(dir)
ListDir(dir) == { e \in fs : Len(e.path) = 2 /\ e.path[1] = dir[1] }
\* The names tempfile.mkdtemp() may return: any that does not exist yet.
FreshDirs == { <<n>> : n \in TempNames } \ { e.path : e \in fs }


\* The entries of fs without the one at path.
Without(files, path) == { e \in files : e.path # path }

(***************************************************************************)
(* The layout files the parser writes, and json.load on them.  A text is a *)
(* sequence of tokens; the only documents are {} and {"key": value}.       *)
(***************************************************************************)
LayoutKinds == { "absent", "missing", "invalid", "valid" }

\* The JSON document the parser writes for the i-th descriptor.
ValidText(i) == <<"{", "page", ":", ToString(i), "}">>
InvalidText == <<"{", "page", ":">>

\* json.load: the object as a set of <<key, value>> pairs, or a failure.
JsonLoad(text) ==
    IF text = <<"{", "}">> THEN [ok |-> TRUE, value |-> {}]
    ELSE IF Len(text) = 5 /\ text[1] = "{" /\ text[3] = ":" /\ text[5] = "}"
         THEN [ok |-> TRUE, value |-> { <<text[2], text[4]>> }]
         ELSE [ok |-> FALSE, value |-> {}]

\* The name of the layout file of the i-th descriptor.
LayoutName(i) == "page_" \o ToString(i) \o ".json"

(***************************************************************************)
(* The external parser.  A plan is what one call does: the message it      *)
(* raises with ("" when it returns), the page number and the kind of       *)
(* layout file of each descriptor it returns, and whether it leaves a      *)
(* subdirectory under save_dir.  The parser numbers the pages of a list in *)
(* ascending or in descending order.                                       *)
(***************************************************************************)
\* The page plans for the layout kinds ks, numbered upwards or downwards.
Numbered(ks, upwards) ==
    [i \in 1..Len(ks) |->
        [page_no |-> IF upwards THEN i - 1 ELSE Len(ks) - i, layout |-> ks[i]]]

RECURSIVE SeqsUpTo(_, _)
\* The sequences over S of length at most n.
SeqsUpTo(S, n) ==
    IF n = 0 THEN { <<>> }
    ELSE LET shorter == SeqsUpTo(S, n - 1)
         IN  shorter \cup { Append(s, x) : s \in { t \in shorter : Len(t) = n - 1 }, x \in S }

ParserPlans ==
    [raises : { "" },
     pages : { Numbered(ks, up) : ks \in SeqsUpTo(LayoutKinds, MaxPages), up \in BOOLEAN },
     subdir : BOOLEAN]
    \cup [raises : { "boom" }, pages : { <<>>, <<[page_no |-> 0, layout |-> "valid"]>> },
          subdir : { FALSE }]

\* The plans of the concurrent specification: one page or as many as there
\* can be, numbered in order, every layout file valid, no subdirectory.
FewParserPlans ==
    { [raises |-> "", pages |-> [i \in 1..n |-> [page_no |-> i - 1, layout |-> "valid"]],
       subdir |-> FALSE] : n \in { 1, MaxPages } }
    \cup { [raises |-> "boom", pages |-> <<>>, subdir |-> FALSE] }

\* What the parser writes under save_dir for a plan, as entries owned by r.
ParserWrites(plan, save_dir, r) ==
    { Entry(<<save_dir[1], LayoutName(i)>>, "file",
            IF plan.pages[i].layout = "valid" THEN ValidText(i) ELSE InvalidText, r) :
        i \in { j \in 1..Len(plan.pages) : plan.pages[j].layout \in { "valid", "invalid" } } }
    \cup (IF plan.subdir THEN { Entry(<<save_dir[1], "images">>, "dir", <<>>, r) } ELSE {})

\* The descriptors the parser returns for a plan: <<>> stands for a
\* descriptor without a layout_info_path.
ParserResults(plan, save_dir) ==
    [i \in 1..Len(plan.pages) |->
        [page_no |-> plan.pages[i].page_no,
         layout_info_path |->
            IF plan.pages[i].layout = "absent" THEN <<>>
            ELSE <<save_dir[1], LayoutName(i)>>]]

\* Lines 108-116 and 193-201: the layout info of one descriptor, {} unless
\* its path is set, exists and holds a JSON document.
LoadLayout(result, files) ==
    LET path == result.layout_info_path
        hit == { e \in files : e.path = path }
    IN  IF path # <<>> /\ hit # {}
        THEN LET e == CHOOSE x \in hit : TRUE
             IN  IF e.kind = "file" /\ JsonLoad(e.text).ok
                 THEN JsonLoad(e.text).value
                 ELSE {}
        ELSE {}

\* A variant that returns the pages sorted by page number.
FormatResultsSorted(results, files) ==
    LET n == Len(results)
        rank(i) == Cardinality({ j \in 1..n : results[j].page_no < results[i].page_no
                                              \/ (results[j].page_no = results[i].page_no /\ j < i) }) + 1
    IN  [k \in 1..n |->
            LET i == CHOOSE j \in 1..n : rank(j) = k
            IN  [page_no |-> results[i].page_no,
                 full_layout_info |-> LoadLayout(results[i], files)]]

\* Lines 191-206: one formatted page per descriptor, in the parser's order.
FormatResults(results, files) ==
    [i \in 1..Len(results) |->
        [page_no |-> results[i].page_no,
         full_layout_info |-> LoadLayout(results[i], files)]]

\* len(results), lines 136 and 210.
TotalPages(results) == Len(results)

\* Lines 134-141: the image handler's payload.
ImagePayload(results, full_layout_info) ==
    [success |-> TRUE,
     total_pages |-> TotalPages(results),
     results |-> << [page_no |-> 0, full_layout_info |-> full_layout_info] >>]

\* Lines 208-212: the PDF handler's payload.
PdfPayload(results, formatted_results) ==
    [success |-> TRUE,
     total_pages |-> TotalPages(results),
     results |-> formatted_results]

NoPayload == [success |-> FALSE, total_pages |-> 0, results |-> <<>>]

(***************************************************************************)
(* Requests.                                                               *)
(***************************************************************************)
NewRequest(ep, filename, content) ==
    [ ep |-> ep, filename |-> filename, content |-> content,
      prompt_mode |-> "prompt_layout_all_en", fitz_preprocess |-> FALSE,
      pos |-> 0,                \* the upload's read position
      h |-> ep,                 \* the handler whose code is running
      via |-> FALSE,            \* h was called by parse_file
      pc |-> "start",
      file_ext |-> <<>>, file_content |-> <<>>,
      temp_dir |-> <<>>, temp_path |-> <<>>, output_dir |-> <<>>,
      results |-> <<>>, full_layout_info |-> {}, payload |-> NoPayload,
      exc |-> NoException,      \* the exception the finally block will re-raise
      response |-> NoResponse,  \* what the endpoint answered
      inner |-> NoResponse,     \* what the handler called by parse_file answered
      \* history, read by the properties only
      invalid |-> "",           \* the validation message raised, if any
      calls |-> <<>>,           \* the parser calls made
      raised |-> "",            \* the message the parser raised with
      returned |-> FALSE,       \* the parser returned normally
      layouts |-> <<>>,         \* the kind of layout file of each descriptor
      removed |-> {},           \* the owners of the entries this request removed
      assembled |-> FALSE,      \* the try body ran to its end
      created |-> {},           \* the paths this request created
      attempted |-> {},         \* the cleanup steps begun
      cleanup_failed |-> FALSE, \* a cleanup step raised
      os_failed |-> FALSE       \* an operating-system call failed for a reason
                                \* outside the program (disk full, permissions)
    ]

\* The requests a specification may run, and those it does run.
RequestIds == { 1, 2 }
Reqs == DOMAIN req

\* Request r exists and is at position pc.
At(r, pc) == r \in Reqs /\ req[r].pc = pc

\* The single-request specification explores every upload, parser plan and
\* operating-system failure; the concurrent one a few of each.
Solo == Cardinality(Reqs) = 1

\* The concurrent requests draw the same uuid: their paths differ by the
\* directory alone.
UuidChoices == IF Solo THEN UuidHex ELSE { "a1" }

\* Whether an operating-system call succeeds.
OsOutcomes == IF Solo THEN BOOLEAN ELSE { TRUE }

Init ==
    /\ fs = {}
    /\ \E ep \in Endpoints, filename \in Filenames, content \in Contents :
          req = [r \in { 1 } |-> NewRequest(ep, filename, content)]

\* The uploads of the concurrent specification, in some order: one that
\* is rejected, one for the image handler and one for each way into the
\* PDF handler.
FewUploads ==
    << [ep |-> "image", filename |-> <<"doc", ".", "jpg">>],
       [ep |-> "image", filename |-> <<"doc", ".", "pdf">>],
       [ep |-> "pdf", filename |-> <<"doc", ".", "pdf">>],
       [ep |-> "file", filename |-> <<"doc", ".", "pdf">>] >>

\* The two requests run the same code, so every pair of uploads is taken
\* once, request 1 having the earlier of the two.
InitConc ==
    /\ fs = {}
    /\ \E i, j \in 1..Len(FewUploads) :
          /\ i <= j
          /\ req = [r \in { 1, 2 } |->
                      IF r = 1
                      THEN NewRequest(FewUploads[i].ep, FewUploads[i].filename, <<"b">>)
                      ELSE NewRequest(FewUploads[j].ep, FewUploads[j].filename, <<"b">>)]

\* Exception e leaves the handler's try block: the request ends with the
\* error the endpoint's catch-alls turn it into.
Fail(q, e) ==
    [q EXCEPT !.pc = "done",
              !.response = ErrorResponse(Escaping(q, e)),
              !.inner = IF q.via THEN ErrorResponse(ExceptAll(e)) ELSE q.inner]

\* An operating-system call failed for a reason outside the program.
OsFail(q, e) == [Fail(q, e) EXCEPT !.os_failed = TRUE]

\* A validation failure: raise HTTPException(400, msg).
Reject(q, msg) == [Fail(q, HTTPException(400, msg)) EXCEPT !.invalid = msg]


(***************************************************************************)
(* Validation and routing.                                                 *)
(***************************************************************************)
\* The handler's checks before its first await: the filename, and for the
\* image and PDF handlers the extension (lines 38-50, 154-164, 235-244).
\* The upload itself is always present: the parameter is File(...).
\* A variant that checks the filename only.
ValidatedNoExtCheck(q) ==
    IF q.filename = <<>> THEN Reject(q, "Missing filename")
    ELSE [q EXCEPT !.pc = "read1", !.file_ext = Suffix(q.filename)]

Validated(q) ==
    IF q.filename = <<>> THEN Reject(q, "Missing filename")
    ELSE IF q.h = "image" /\ Suffix(q.filename) \notin ImageExts
         THEN Reject(q, "Invalid image format. Supported: .jpg, .jpeg, .png")
    ELSE IF q.h = "pdf" /\ Suffix(q.filename) # PdfExt
         THEN Reject(q, "Invalid PDF format. Only .pdf files accepted")
    ELSE [q EXCEPT !.pc = "read1", !.file_ext = Suffix(q.filename)]

Validate(r) ==
    /\ At(r, "start")
    /\ req' = [req EXCEPT ![r] = Validated(req[r])]
    /\ UNCHANGED fs

\* UploadFile.read(): the bytes from the read position to the end.
ReadBytes(q) == SubSeq(q.content, q.pos + 1, Len(q.content))

\* file_content = await file.read(), then the emptiness check
\* (lines 52-54, 166-168, 246-248).
ReadUpload(r) ==
    /\ At(r, "read1")
    /\ LET q == [req[r] EXCEPT !.file_content = ReadBytes(req[r]),
                               !.pos = Len(req[r].content)]
       IN  req' = [req EXCEPT ![r] =
                      IF q.file_content = <<>>
                      THEN Reject(q, "Uploaded file is empty")
                      ELSE [q EXCEPT !.pc = "seek1"]]
    /\ UNCHANGED fs

\* await file.seek(0) (lines 56, 170, 250).
SeekUpload(r) ==
    /\ At(r, "seek1")
    /\ req' = [req EXCEPT ![r].pos = 0, ![r].pc = "route"]
    /\ UNCHANGED fs

\* parse_file's routing (lines 252-257): the PDF or the image handler runs
\* from its first line on the same upload, or the extension is rejected.
Dispatched(q) ==
    IF q.file_ext = PdfExt THEN [q EXCEPT !.h = "pdf", !.via = TRUE, !.pc = "start"]
    ELSE IF q.file_ext \in ImageExts
         THEN [q EXCEPT !.h = "image", !.via = TRUE, !.pc = "start"]
         ELSE Reject(q, "Unsupported file format")

Dispatch(r) ==
    /\ At(r, "route")
    /\ req[r].h = "file"
    /\ req' = [req EXCEPT ![r] = Dispatched(req[r])]
    /\ UNCHANGED fs

(***************************************************************************)
(* Staging.                                                                *)
(***************************************************************************)
\* A variant that may hand out a name already in use.
MkdtempAnyName == { <<n>> : n \in TempNames }

\* tempfile.mkdtemp(): any name that does not exist.
MkdtempChoices == FreshDirs

\* os.path.join(temp_dir, f"upload_{uuid.uuid4().hex}{ext}") (lines 61, 173).
UploadPath(q, dir, u) ==
    <<dir[1], "upload_" \o u \o (IF q.h = "image" THEN Join(q.file_ext) ELSE ".pdf")>>

\* Lines 59-64 and 172-176: the input directory is made and the upload's
\* path chosen; the PDF handler also opens the file before it awaits the
\* second read.  mkdtemp raises when it finds no unused name.
StageInput(r) ==
    /\ At(r, "route")
    /\ req[r].h \in { "image", "pdf" }
    /\ IF MkdtempChoices = {}
       THEN /\ req' = [req EXCEPT ![r] =
                         Fail(req[r], PyException("FileExistsError",
                                 "No usable temporary directory name found"))]
            /\ UNCHANGED fs
       ELSE \E dir \in MkdtempChoices, u \in UuidChoices, ok \in OsOutcomes :
              LET q == [req[r] EXCEPT !.temp_dir = dir,
                                      !.temp_path = UploadPath(req[r], dir, u),
                                      !.created = @ \cup { dir }]
                  made == Without(fs, dir) \cup { Entry(dir, "dir", <<>>, r) }
              IN  IF q.h = "image"
                  THEN /\ req' = [req EXCEPT ![r] = [q EXCEPT !.pc = "read2"]]
                       /\ fs' = made
                  ELSE IF ok
                       THEN /\ req' = [req EXCEPT ![r] =
                                         [q EXCEPT !.pc = "read2",
                                                   !.created = @ \cup { q.temp_path }]]
                            /\ fs' = made \cup { Entry(q.temp_path, "file", <<>>, r) }
                       ELSE /\ req' = [req EXCEPT ![r] =
                                         OsFail(q, PyException("OSError", "No space left on device"))]
                            /\ fs' = made

\* Lines 64-91 and 176: the upload is read again and written to temp_path.
\* The image handler opens the file here; its checks that the file exists
\* pass once the write has succeeded.
WriteUpload(r) ==
    /\ At(r, "read2")
    /\ \E ok \in OsOutcomes :
         LET q == [req[r] EXCEPT !.file_content = ReadBytes(req[r]),
                                 !.pos = Len(req[r].content)]
         IN  IF ok
             THEN /\ req' = [req EXCEPT ![r] =
                               [q EXCEPT !.pc = "mkout",
                                         !.created = @ \cup { q.temp_path }]]
                  /\ fs' = Without(fs, q.temp_path)
                             \cup { Entry(q.temp_path, "file", q.file_content, r) }
             ELSE /\ req' = [req EXCEPT ![r] =
                               OsFail(q, PyException("OSError", "No space left on device"))]
                  /\ UNCHANGED fs

\* os.remove on every entry of a directory (lines 94-95, 130-131): the files
\* go, a directory among the entries makes os.remove raise.
Removable(dir) == { e \in ListDir(dir) : e.kind = "file" }

\* Lines 93-95: the output directory is made and cleared.
MakeOutputDir(r) ==
    /\ At(r, "mkout")
    /\ IF MkdtempChoices = {}
       THEN /\ req' = [req EXCEPT ![r] =
                         Fail(req[r], PyException("FileExistsError",
                                 "No usable temporary directory name found"))]
            /\ UNCHANGED fs
       ELSE \E dir \in MkdtempChoices :
              LET q == [req[r] EXCEPT !.output_dir = dir, !.created = @ \cup { dir },
                                      !.removed = @ \cup { e.owner : e \in Removable(dir) }]
                  made == Without(fs, dir) \cup { Entry(dir, "dir", <<>>, r) }
              IN  IF ListDir(dir) = Removable(dir)
                  THEN /\ req' = [req EXCEPT ![r] = [q EXCEPT !.pc = "parse"]]
                       /\ fs' = made \ Removable(dir)
                  ELSE /\ req' = [req EXCEPT ![r] =
                                    Fail(q, PyException("IsADirectoryError", "Is a directory"))]
                       /\ fs' = made


(***************************************************************************)
(* The parser call and the assembly of the payload.                        *)
(***************************************************************************)
\* The arguments of dots_parser.parse_image (lines 98-104) or
\* dots_parser.parse_pdf (lines 183-188).
ParserCall(q) ==
    [fn |-> IF q.h = "image" THEN "parse_image" ELSE "parse_pdf",
     input_path |-> q.temp_path,
     filename |-> IF q.h = "image" THEN "api_image" ELSE "api_pdf",
     prompt_mode |-> q.prompt_mode,
     save_dir |-> q.output_dir,
     fitz_preprocess |-> IF q.h # "image" THEN "not passed"
                         ELSE IF q.fitz_preprocess THEN "True" ELSE "False"]

\* The exception the finally block holds after the parser raised with msg:
\* the image handler's inner except (lines 118-123) wraps it, the PDF
\* handler has no inner except.
ParserFailure(q, msg) ==
    IF q.h = "image"
    THEN HTTPException(500, "Parser error: " \o msg)
    ELSE PyException("Exception", msg)

PlansFor(r) == IF Solo THEN ParserPlans ELSE FewParserPlans

CallParser(r) ==
    /\ At(r, "parse")
    /\ \E plan \in PlansFor(r) :
         LET q == [req[r] EXCEPT !.calls = Append(@, ParserCall(req[r])),
                                 !.created = @ \cup { e.path :
                                     e \in ParserWrites(plan, req[r].output_dir, r) }]
         IN  /\ fs' = { e \in fs : \A w \in ParserWrites(plan, q.output_dir, r) :
                                      w.path # e.path }
                        \cup ParserWrites(plan, q.output_dir, r)
             /\ req' = [req EXCEPT ![r] =
                          IF plan.raises # ""
                          THEN [q EXCEPT !.pc = "clean_file",
                                         !.raised = plan.raises,
                                         !.exc = ParserFailure(q, plan.raises)]
                          ELSE [q EXCEPT !.pc = "assemble",
                                         !.returned = TRUE,
                                         !.layouts = [i \in 1..Len(plan.pages) |->
                                                         plan.pages[i].layout],
                                         !.results = ParserResults(plan, q.output_dir)]]

\* Lines 107-116: the image handler reads the first descriptor's layout
\* info; results[0] of an empty list raises IndexError inside the try, which
\* the inner except turns into a parser error.
\* Lines 191-212: the PDF handler formats every descriptor and holds its
\* payload while the finally block runs.
Assembled(q, files) ==
    IF q.h = "image"
    THEN IF q.results = <<>>
         THEN [q EXCEPT !.pc = "clean_file",
                        !.exc = ParserFailure(q, "list index out of range")]
         ELSE [q EXCEPT !.pc = "clean_file",
                        !.assembled = TRUE,
                        !.full_layout_info = LoadLayout(q.results[1], files)]
    ELSE [q EXCEPT !.pc = "clean_file",
                   !.assembled = TRUE,
                   !.payload = PdfPayload(q.results, FormatResults(q.results, files))]

Assemble(r) ==
    /\ At(r, "assemble")
    /\ req' = [req EXCEPT ![r] = Assembled(req[r], fs)]
    /\ UNCHANGED fs

(***************************************************************************)
(* The finally block (lines 124-132 and 214-222) and what follows it.      *)
(***************************************************************************)
\* A cleanup step raised: the exception leaves the finally block in place
\* of whatever it held, and the steps after it do not run.
CleanupRaise(q, e) ==
    [Fail(q, e) EXCEPT !.cleanup_failed = TRUE,
                       !.os_failed = (e.type = "PermissionError")]

\* os.remove(temp_path), if it exists.
RemoveInputFile(r) ==
    /\ At(r, "clean_file")
    /\ LET q == [req[r] EXCEPT !.attempted = @ \cup { "input_file" }]
       IN  IF ~Exists(q.temp_path)
           THEN /\ req' = [req EXCEPT ![r] = [q EXCEPT !.pc = "clean_dir"]]
                /\ UNCHANGED fs
           ELSE \E ok \in OsOutcomes :
                  IF ok
                  THEN /\ req' = [req EXCEPT ![r] =
                                    [q EXCEPT !.pc = "clean_dir",
                                              !.removed = @ \cup { EntryAt(q.temp_path).owner }]]
                       /\ fs' = Without(fs, q.temp_path)
                  ELSE /\ req' = [req EXCEPT ![r] =
                                    CleanupRaise(q, PyException("PermissionError",
                                                                "Permission denied"))]
                       /\ UNCHANGED fs

\* os.rmdir(temp_dir), if it exists: it raises on a directory that is not
\* empty.
RemoveInputDir(r) ==
    /\ At(r, "clean_dir")
    /\ LET q == [req[r] EXCEPT !.attempted = @ \cup { "input_dir" }]
       IN  IF ~Exists(q.temp_dir)
           THEN /\ req' = [req EXCEPT ![r] = [q EXCEPT !.pc = "clean_out"]]
                /\ UNCHANGED fs
           ELSE \E ok \in OsOutcomes :
                  IF ok /\ ListDir(q.temp_dir) = {}
                  THEN /\ req' = [req EXCEPT ![r] =
                                    [q EXCEPT !.pc = "clean_out",
                                              !.removed = @ \cup { EntryAt(q.temp_dir).owner }]]
                       /\ fs' = Without(fs, q.temp_dir)
                  ELSE /\ req' = [req EXCEPT ![r] =
                                    CleanupRaise(q,
                                        IF ListDir(q.temp_dir) # {}
                                        THEN PyException("OSError", "Directory not empty")
                                        ELSE PyException("PermissionError",
                                                         "Permission denied"))]
                       /\ UNCHANGED fs

\* The finally block is over: the exception it held is raised again, or the
\* handler returns its payload (lines 134-141 and 208-212).
Finished(q) ==
    IF q.exc.type # None THEN Fail(q, q.exc)
    ELSE LET body == IF q.h = "image"
                     THEN ImagePayload(q.results, q.full_layout_info)
                     ELSE q.payload
         IN  [q EXCEPT !.pc = "done",
                       !.payload = body,
                       !.response = OkResponse(body),
                       !.inner = IF q.via THEN OkResponse(body) ELSE q.inner]

\* Lines 129-132 and 219-222: every entry of the output directory is
\* removed with os.remove, in the order os.listdir gives them, and then the
\* directory with os.rmdir.  os.remove raises on a subdirectory and may fail
\* on a file; the entries before the one it raised on are gone.
RemoveOutputDir(r) ==
    /\ At(r, "clean_out")
    /\ LET q == [req[r] EXCEPT !.attempted = @ \cup { "output_dir" }]
       IN  IF ~Exists(q.output_dir)
           THEN /\ req' = [req EXCEPT ![r] = Finished(q)]
                /\ UNCHANGED fs
           ELSE \E gone \in SUBSET Removable(q.output_dir), ok \in OsOutcomes :
                  LET q2 == [q EXCEPT !.removed = @ \cup { e.owner : e \in gone }]
                  IN  IF gone = ListDir(q.output_dir)
                      THEN IF ok
                           THEN /\ req' = [req EXCEPT ![r] =
                                             Finished([q2 EXCEPT !.removed =
                                                 @ \cup { EntryAt(q.output_dir).owner }])]
                                /\ fs' = Without(fs \ gone, q.output_dir)
                           ELSE /\ req' = [req EXCEPT ![r] =
                                             CleanupRaise(q2, PyException("PermissionError",
                                                                          "Permission denied"))]
                                /\ fs' = fs \ gone
                      ELSE /\ \/ ListDir(q.output_dir) # Removable(q.output_dir)
                              \/ ~ok
                           /\ req' = [req EXCEPT ![r] =
                                        CleanupRaise(q2,
                                            IF ListDir(q.output_dir) # Removable(q.output_dir)
                                            THEN PyException("IsADirectoryError", "Is a directory")
                                            ELSE PyException("PermissionError", "Permission denied"))]
                           /\ fs' = fs \ gone

(***************************************************************************)
(* The specifications.                                                     *)
(***************************************************************************)
Next ==
    \E r \in RequestIds :
        \/ Validate(r)
        \/ ReadUpload(r)
        \/ SeekUpload(r)
        \/ Dispatch(r)
        \/ StageInput(r)
        \/ WriteUpload(r)
        \/ MakeOutputDir(r)
        \/ CallParser(r)
        \/ Assemble(r)
        \/ RemoveInputFile(r)
        \/ RemoveInputDir(r)
        \/ RemoveOutputDir(r)

\* One request, every upload, parser plan and operating-system failure.
Spec == Init /\ [][Next]_vars

\* Two requests that interleave at every step.
SpecConc == InitConc /\ [][Next]_vars


(***************************************************************************)
(* Properties.                                                             *)
(***************************************************************************)
Done(r) == req[r].pc = "done"

\* The handlers that stage, parse and clean up.
Workers == { "image", "pdf" }

\* The pages of a finished request's 200 response.
Pages(r) == req[r].response.body.results

\* The layout info the parser's valid layout file of descriptor i holds.
ValidInfo(i) == { <<"page", ToString(i)>> }

\* C1: once a request has ended, on whatever path, nothing it created (the
\* input file, the input directory, the output directory and what the
\* parser wrote under it) exists any more.
C1_NothingSurvives ==
    \A r \in Reqs : Done(r) => \A p \in req[r].created : ~Exists(p)

\* C2: a validation failure is answered with status 400 and the validation
\* message as the detail; status 500 is kept for internal and parser
\* failures.
C2_ValidationAnswers400 ==
    \A r \in Reqs :
        Done(r) /\ req[r].invalid # "" =>
            /\ req[r].response.status = 400
            /\ req[r].response.detail = req[r].invalid
            /\ req[r].response.status # 500

\* No call of the operating system failed during request r and its cleanup
\* ran to the end.  A claim about every request is a claim about these.
Undisturbed(r) == ~req[r].os_failed /\ ~req[r].cleanup_failed

\* C3: on /parse/image and /parse/pdf, when the parser raises with message
\* m the request ends with status 500 and the detail "Parser error: " + m,
\* and the parser was called once.  Stated for the undisturbed requests.
C3_ParserErrorIsReported ==
    \A r \in Reqs :
        Done(r) /\ Undisturbed(r) /\ req[r].ep \in Workers /\ req[r].raised # "" =>
            /\ req[r].response.status = 500
            /\ req[r].response.detail = "Parser error: " \o req[r].raised
            /\ Len(req[r].calls) = 1

\* C4: a valid image upload for which the parser returns normally, with
\* whatever list of descriptors, is answered with status 200, total_pages 1
\* and exactly one result, whose page_no is 0.  Stated for the undisturbed
\* requests.
C4_ImageIsOnePage ==
    \A r \in Reqs :
        Done(r) /\ Undisturbed(r) /\ req[r].ep = "image" /\ req[r].returned =>
            /\ req[r].response.status = 200
            /\ req[r].response.body.total_pages = 1
            /\ Len(Pages(r)) = 1
            /\ Pages(r)[1].page_no = 0

\* C5: a PDF request answered with status 200, the parser having returned n
\* descriptors, reports success, total_pages n and n results, the i-th
\* carrying the page_no of the i-th descriptor.
C5_PdfPagesInParserOrder ==
    \A r \in Reqs :
        Done(r) /\ req[r].h = "pdf" /\ req[r].response.status = 200 =>
            /\ req[r].returned
            /\ req[r].response.body.success
            /\ req[r].response.body.total_pages = Len(req[r].results)
            /\ Len(Pages(r)) = Len(req[r].results)
            /\ \A i \in 1..Len(req[r].results) :
                  Pages(r)[i].page_no = req[r].results[i].page_no

\* A PDF request answered with the pages 1, 0 in that order.
C5_Witness ==
    \E r \in Reqs :
        /\ Done(r) /\ req[r].ep = "pdf" /\ req[r].response.status = 200
        /\ Len(req[r].results) = 2
        /\ Pages(r)[1].page_no = 1 /\ Pages(r)[2].page_no = 0

\* The layout info a response must carry for descriptor i of request r: {}
\* for a layout file that is absent, missing or invalid, the file's object
\* otherwise.
ExpectedInfo(r, i) == IF req[r].layouts[i] = "valid" THEN ValidInfo(i) ELSE {}

\* The reported pages of request r carry the expected layout info: every
\* descriptor's for a PDF, the first descriptor's for an image.
InfoAsExpected(r) ==
    IF req[r].h = "pdf"
    THEN /\ Len(Pages(r)) = Len(req[r].layouts)
         /\ \A i \in 1..Len(req[r].layouts) :
               Pages(r)[i].full_layout_info = ExpectedInfo(r, i)
    ELSE /\ Len(Pages(r)) = 1
         /\ Pages(r)[1].full_layout_info = ExpectedInfo(r, 1)

\* C6: when the parser returned normally and the layout file of some
\* descriptor is absent, missing or not JSON, the request is still answered
\* with status 200 and success, that page's layout info is {} and the other
\* pages carry their own.  Stated for the requests during which no call of
\* the operating system failed for an outside reason.
C6_BadLayoutStillSucceeds ==
    \A r \in Reqs :
        Done(r) /\ ~req[r].os_failed /\ req[r].returned
                /\ (\E i \in 1..Len(req[r].layouts) : req[r].layouts[i] # "valid") =>
            /\ req[r].response.status = 200
            /\ req[r].response.body.success
            /\ InfoAsExpected(r)

\* The layout fallback itself: every 200 response carries {} for a layout
\* file that is absent, missing or invalid and the file's object otherwise.
LayoutFallbackInEveryAnswer ==
    \A r \in Reqs :
        Done(r) /\ req[r].response.status = 200 => InfoAsExpected(r)

\* A bad layout file alone never fails a request: a request for which the
\* parser returned a list (not empty, for an image) and whose cleanup did
\* not fail is answered with status 200.
OnlyCleanupFailsAParsedRequest ==
    \A r \in Reqs :
        Done(r) /\ req[r].returned /\ ~req[r].cleanup_failed
                /\ (req[r].h = "image" => req[r].results # <<>>) =>
            req[r].response.status = 200

\* What /parse/pdf answers for the upload of request r: the answer of the
\* PDF handler parse_file called, or, when parse_file rejected the upload
\* before calling it, the PDF handler's answer to the same rejection.
PdfAnswer(r) ==
    IF req[r].inner # NoResponse THEN req[r].inner
    ELSE Reject(NewRequest("pdf", req[r].filename, req[r].content), req[r].invalid).response

\* C7: /parse/file on a .pdf upload ends exactly as /parse/pdf does on the
\* same upload.  Stated for the undisturbed requests.
C7_FileActsAsPdf ==
    \A r \in Reqs :
        Done(r) /\ Undisturbed(r) /\ req[r].ep = "file" /\ Suffix(req[r].filename) = <<".", "pdf">> =>
            req[r].response = PdfAnswer(r)

\* The extensions each endpoint accepts, as the claims state them.
Accepted(ep) ==
    CASE ep = "image" -> { <<".", "jpg">>, <<".", "jpeg">>, <<".", "png">> }
      [] ep = "pdf" -> { <<".", "pdf">> }
      [] ep = "file" -> { <<".", "jpg">>, <<".", "jpeg">>, <<".", "png">>, <<".", "pdf">> }

\* C8: a request whose upload has an extension outside its endpoint's
\* allow-list never calls the parser and never creates a temporary file or
\* directory, and it does not end in success.
C8_RejectedUploadTouchesNothing ==
    \A r \in Reqs :
        Suffix(req[r].filename) \notin Accepted(req[r].ep) =>
            /\ req[r].calls = <<>>
            /\ req[r].created = {}
            /\ \A e \in fs : e.owner # r
            /\ Done(r) => req[r].response.status # 200

\* A request to /parse/file rejected for its extension after its content
\* was read.
C8_Witness ==
    \E r \in Reqs :
        /\ Done(r)
        /\ req[r].ep = "file"
        /\ req[r].filename = <<"doc", ".", "txt">>
        /\ req[r].invalid = "Unsupported file format"
        /\ req[r].response.status = 500

\* C9: when the payload was computed, a cleanup step that fails leaves the
\* answer a 200 with that payload, and the other cleanup steps are still
\* attempted.
C9_CleanupFailureKeepsSuccess ==
    \A r \in Reqs :
        Done(r) /\ req[r].assembled /\ req[r].cleanup_failed =>
            /\ req[r].response.status = 200
            /\ req[r].attempted = { "input_file", "input_dir", "output_dir" }

\* The paths request r has created and not yet come to remove.
Held(r) ==
    (IF req[r].pc \in { "read2", "mkout", "parse", "assemble", "clean_file", "clean_dir" }
     THEN { req[r].temp_dir } ELSE {})
    \cup (IF req[r].pc \in { "mkout", "parse", "assemble", "clean_file" }
          THEN { req[r].temp_path } ELSE {})
    \cup (IF req[r].pc \in { "parse", "assemble", "clean_file", "clean_dir", "clean_out" }
          THEN { req[r].output_dir } ELSE {})

=============================================================================
